---- MODULE Spec2Model ----
(***************************************************************************)
(* Model of the movie-tracking application: the SQLAlchemy data layer      *)
(* (src/datamanager/sqlite_data_manager.py) over its three SQLite tables,  *)
(* and the Flask request handlers of src/app.py that drive it.             *)
(*                                                                         *)
(* The store is the three tables plus the state of the one process-wide    *)
(* Session the data manager keeps (app.py:22, sqlite_data_manager.py:91).  *)
(* A flush that fails inside commit() rolls the transaction back and       *)
(* leaves that Session inactive: until rollback() is called - and no code  *)
(* of the program calls it - every later statement on the Session raises   *)
(* PendingRollbackError.                                                   *)
(*                                                                         *)
(* Rows get their id from SQLite's INTEGER PRIMARY KEY without the         *)
(* AUTOINCREMENT keyword: the largest id in the table plus one.            *)
(*                                                                         *)
(* Spec and SpecApp run the calls and the requests one after the other.    *)
(* SpecThreads runs them on the threads of the development server          *)
(* (app.py:212, app.run), statement by statement, all on the one Session:  *)
(* what Session.add and Session.delete have registered is written by the   *)
(* next flush, whichever thread's query or commit performs it.             *)
(***************************************************************************)
EXTENDS Integers, Sequences, FiniteSets, TLC

VARIABLES
    users,        \* rows of table 'users':       [id, name]
    movies,       \* rows of table 'movies':      [id, name, director, year, rating, poster]
    user_movies,  \* rows of table 'user_movies': [id, user_id, movie_id]
    db_session,   \* "active" | "inactive" (rolled back by a failed flush)
    last,         \* the last call or request and what it signalled
    pending,      \* what Session.add / Session.delete registered, not yet flushed
    durable,      \* the three tables as of the last commit
    threads,      \* each serving thread: where it is in its request, its locals
    response      \* what requests.get gives the movie-info lookup

vars == <<users, movies, user_movies, db_session, last, pending, durable, threads,
          response>>

tables == <<users, movies, user_movies>>

\* ---------------------------------------------------------------- bounds

\* The largest ids the behaviours let the tables hand out. The calls of the
\* data layer are explored with one movie at a time and the requests with
\* two, which keeps both state spaces small.
MaxUserId == 2
MaxMovieId == 1
MaxLinkId == 2
MaxRequestMovieId == 2

\* The threads that serve requests, and how many registrations the Session
\* may hold unflushed.
NumThreads == 2
MaxPending == 2

Threads == 1..NumThreads

UserIds == 1..(MaxUserId + 1)
MovieIds == 1..(MaxMovieId + 1)
RequestMovieIds == 1..(MaxRequestMovieId + 1)

\* Python's None, for a form field that was not sent.
None == "<None>"

\* User names are sequences of characters.
NameInputs == {<<"a">>, <<"a", "1">>}

\* Ratings are kept in tenths (8.7 is 87).
Titanic == [name |-> "Titanic", director |-> "Cameron", year |-> 1997,
            rating |-> 87, poster |-> "p1"]
Alien == [name |-> "Alien", director |-> "Scott", year |-> 1979,
          rating |-> 85, poster |-> "p2"]

\* Arguments of add_movie / update_movie: two well-typed entries and one
\* whose name is None.
MovieInputs == {Titanic, Alien, [Titanic EXCEPT !.name = None]}

TypedMovieInputs == {d \in MovieInputs : d.name # None}

\* ---------------------------------------------------------------- store

Store == [users |-> users, movies |-> movies, user_movies |-> user_movies,
          db_session |-> db_session]

Ids(rows) == {r.id : r \in rows}

Max(S) == CHOOSE x \in S : \A y \in S : y <= x

\* INTEGER PRIMARY KEY without AUTOINCREMENT: max(rowid) + 1, 1 if empty.
NextId(rows) == IF rows = {} THEN 1 ELSE Max(Ids(rows)) + 1

\* What a call leaves and gives: the store after it, the value returned or
\* the exception raised, and the returned rows or ids.
Ret(st, res, val) == [st |-> st, res |-> res, val |-> val]

Raise(st, exc) == Ret(st, exc, {})

Exceptions == {"PendingRollbackError", "IntegrityError", "NoResultFound",
               "MultipleResultsFound", "NotFound", "TypeError", "ValueError"}

Raised(r) == r.res \in Exceptions

\* A flush that fails inside commit(): nothing is written and the Session
\* is left inactive.
FlushFailed(st) == Raise([st EXCEPT !.db_session = "inactive"], "IntegrityError")

Inactive(st) == st.db_session = "inactive"

MovieRow(id, d) == [id |-> id, name |-> d.name, director |-> d.director,
                    year |-> d.year, rating |-> d.rating, poster |-> d.poster]

MovieData(m) == [name |-> m.name, director |-> m.director, year |-> m.year,
                 rating |-> m.rating, poster |-> m.poster]

\* ----------------------------------------------------------- data layer

get_user_movies(st, user_id) ==
    IF Inactive(st) THEN Raise(st, "PendingRollbackError")
    ELSE Ret(st, "ok",
             {m \in st.movies : \E r \in st.user_movies :
                                   r.movie_id = m.id /\ r.user_id = user_id})

add_user_no_unique(st, user) ==
    IF Inactive(st) THEN Raise(st, "PendingRollbackError")
    ELSE Ret([st EXCEPT !.users = @ \cup {[id |-> NextId(st.users), name |-> user]}],
             "ok", {})

add_user(st, user) ==
    IF Inactive(st) THEN Raise(st, "PendingRollbackError")
    ELSE IF \E u \in st.users : u.name = user
         THEN FlushFailed(st)   \* users.name is unique=True
         ELSE Ret([st EXCEPT !.users = @ \cup {[id |-> NextId(st.users),
                                                 name |-> user]}],
                  "ok", {})

is_available_username(st, user) ==
    IF Inactive(st) THEN Raise(st, "PendingRollbackError")
    ELSE IF \E u \in st.users : u.name = user
         THEN Ret(st, "False", {})
         ELSE Ret(st, "True", {})

user_id_exists(st, user_id) ==
    IF Inactive(st) THEN Raise(st, "PendingRollbackError")
    ELSE IF \E u \in st.users : u.id = user_id
         THEN Ret(st, "True", {})
         ELSE Ret(st, "False", {})

add_movie(st, d) ==
    IF Inactive(st) THEN Raise(st, "PendingRollbackError")
    ELSE IF None \in {d.name, d.director, d.poster}
         THEN FlushFailed(st)   \* the columns are nullable=False
         ELSE Ret([st EXCEPT !.movies = @ \cup {MovieRow(NextId(st.movies), d)}],
                  "ok", {NextId(st.movies)})

add_user_movie(st, user_id, movie_id) ==
    IF Inactive(st) THEN Raise(st, "PendingRollbackError")
    ELSE IF ~ \E m \in st.movies : m.id = movie_id
         THEN Raise(st, "NoResultFound")
    ELSE IF ~ \E u \in st.users : u.id = user_id
         THEN Raise(st, "NoResultFound")
    ELSE IF \E r \in st.user_movies : r.user_id = user_id /\ r.movie_id = movie_id
         THEN Ret(st, "already", {})
    ELSE Ret([st EXCEPT !.user_movies =
                  @ \cup {[id |-> NextId(st.user_movies), user_id |-> user_id,
                           movie_id |-> movie_id]}],
             "ok", {})

get_movie_from_id(st, movie_id) ==
    IF Inactive(st) THEN Raise(st, "PendingRollbackError")
    ELSE IF ~ \E m \in st.movies : m.id = movie_id
         THEN Raise(st, "NoResultFound")
         ELSE Ret(st, "ok", {m \in st.movies : m.id = movie_id})

create_movie_object(movie_id, name, director, year, rating, poster) ==
    [id |-> movie_id, name |-> name, director |-> director, year |-> year,
     rating |-> rating, poster |-> poster]

\* One UPDATE statement, then commit. The UPDATE is no flush: when it
\* fails the Session stays active. It matches no row when the id is absent.
update_movie(st, movie) ==
    IF Inactive(st) THEN Raise(st, "PendingRollbackError")
    ELSE IF ~ \E m \in st.movies : m.id = movie.id
         THEN Ret(st, "ok", {})
    ELSE IF None \in {movie.name, movie.director, movie.poster}
         THEN Raise(st, "IntegrityError")
    ELSE Ret([st EXCEPT !.movies = {m \in @ : m.id # movie.id} \cup {movie}],
             "ok", {})

\* The rows deleting the movie would leave behind: the relationship
\* Movie.users (backref, no delete cascade) makes the flush set their
\* movie_id to NULL, which the column's nullable=False refuses.
OtherLinks(st, user_id, movie_id) ==
    {r \in st.user_movies : r.movie_id = movie_id /\ r.user_id # user_id}

delete_movie_orphaning(st, user_id, movie_id) ==
    LET rel == {r \in st.user_movies :
                    r.user_id = user_id /\ r.movie_id = movie_id}
    IN  IF Inactive(st) THEN Raise(st, "PendingRollbackError")
        ELSE IF rel = {} THEN Raise(st, "NoResultFound")
        ELSE IF Cardinality(rel) > 1 THEN Raise(st, "MultipleResultsFound")
        ELSE IF ~ \E m \in st.movies : m.id = movie_id
             THEN Raise(st, "NoResultFound")
        ELSE Ret([st EXCEPT !.user_movies = @ \ rel,
                            !.movies = {m \in @ : m.id # movie_id}],
                 "ok", {})

delete_movie(st, user_id, movie_id) ==
    LET rel == {r \in st.user_movies :
                    r.user_id = user_id /\ r.movie_id = movie_id}
    IN  IF Inactive(st) THEN Raise(st, "PendingRollbackError")
        ELSE IF rel = {} THEN Raise(st, "NoResultFound")
        ELSE IF Cardinality(rel) > 1 THEN Raise(st, "MultipleResultsFound")
        ELSE IF ~ \E m \in st.movies : m.id = movie_id
             THEN Raise(st, "NoResultFound")
        ELSE IF OtherLinks(st, user_id, movie_id) # {}
             THEN FlushFailed(st)
        ELSE Ret([st EXCEPT !.user_movies = @ \ rel,
                            !.movies = {m \in @ : m.id # movie_id}],
                 "ok", {})

\* The two operations app.py calls that the data manager does not define;
\* they follow the contract table of the specification (section 4.1).
get_username_from_id(st, user_id) ==
    IF Inactive(st) THEN Raise(st, "PendingRollbackError")
    ELSE IF ~ \E u \in st.users : u.id = user_id
         THEN Raise(st, "NotFound")
         ELSE Ret(st, "ok", {u.name : u \in {v \in st.users : v.id = user_id}})

delete_user(st, user_id) ==
    IF Inactive(st) THEN Raise(st, "PendingRollbackError")
    ELSE IF ~ \E u \in st.users : u.id = user_id
         THEN Raise(st, "NotFound")
         ELSE Ret([st EXCEPT !.users = {u \in @ : u.id # user_id}], "ok", {})

\* SQLiteDataManager() over the same database file: a new Session.
Fresh(st) == [st EXCEPT !.db_session = "active"]

\* ----------------------------------------------------- upstream replies

\* The keys fetch_omdb_data reads off the reply's JSON object; a key that
\* is missing reads as None.
Titles == {None, "Titanic", "Ti,tanic"}
Directors == {None, "Cameron"}
Years == {None, "N/A", "1997", "1997-", "abc"}
Ratings == {None, "N/A", "8.7", "abc"}
Posters == {None, "p1"}

Dicts ==
    [Response : {"True", "False"}, Title : Titles, Director : Directors,
     Year : Years, imdbRating : Ratings, Poster : Posters]

NoDict ==
    [Response |-> "False", Title |-> None, Director |-> None, Year |-> None,
     imdbRating |-> None, Poster |-> None]

\* requests.get raised `raised`, or returned a response with this status
\* code whose text is JSON for the object `dict`, or is no JSON at all.
Reply(raised, status_code, is_json, dict) ==
    [raised |-> raised, status_code |-> status_code, is_json |-> is_json,
     dict |-> dict]

Unreachable == Reply("ConnectionError", 0, FALSE, NoDict)

Replies ==
    {Reply(e, 0, FALSE, NoDict) : e \in {"ConnectionError", "ReadTimeout"}}
        \cup {Reply("", 503, FALSE, NoDict), Reply("", 200, FALSE, NoDict)}
        \cup {Reply("", 200, TRUE, d) : d \in Dicts}

\* ------------------------------------------------- data-layer behaviours

Bounded(st, max_movie_id) ==
    /\ \A u \in st.users : u.id <= MaxUserId
    /\ \A m \in st.movies : m.id <= max_movie_id
    /\ \A r \in st.user_movies : r.id <= MaxLinkId

\* The rows of the three tables.
Tables(st) ==
    [users |-> st.users, movies |-> st.movies, user_movies |-> st.user_movies]

\* A thread that serves no request.
IdleThread ==
    [pc |-> "idle", op |-> "init", res |-> "ok", avail |-> "", name |-> <<>>,
     user_id |-> 0, movie_id |-> 0, new_id |-> 0, link_id |-> 0]

\* The call or request `op` ended as r: it ran alone from its first
\* statement to its last, so nothing is left unflushed and the tables are
\* as of its last commit.
Ended(op, r) ==
    /\ users' = r.st.users
    /\ movies' = r.st.movies
    /\ user_movies' = r.st.user_movies
    /\ db_session' = r.st.db_session
    /\ last' = [op |-> op, res |-> r.res]
    /\ durable' = Tables(r.st)
    /\ UNCHANGED <<pending, threads, response>>

\* A call of the data layer, within the bounds.
Step(op, r) == Bounded(r.st, MaxMovieId) /\ Ended(op, r)

\* A request, within the bounds.
Request(op, r) == Bounded(r.st, MaxRequestMovieId) /\ Ended(op, r)

Init ==
    /\ users = {}
    /\ movies = {}
    /\ user_movies = {}
    /\ db_session = "active"
    /\ last = [op |-> "init", res |-> "ok"]
    /\ pending = <<>>
    /\ durable = [users |-> {}, movies |-> {}, user_movies |-> {}]
    /\ threads = [t \in Threads |-> IdleThread]
    /\ response = Unreachable

AddUser == \E n \in NameInputs : Step("add_user", add_user(Store, n))

AddMovie == \E d \in MovieInputs : Step("add_movie", add_movie(Store, d))

AddUserMovie ==
    \E u \in UserIds, m \in MovieIds :
        Step("add_user_movie", add_user_movie(Store, u, m))

UpdateMovie ==
    \E m \in MovieIds, d \in MovieInputs :
        Step("update_movie",
             update_movie(Store, create_movie_object(m, d.name, d.director,
                                                     d.year, d.rating, d.poster)))

DeleteMovie ==
    \E u \in UserIds, m \in MovieIds :
        Step("delete_movie", delete_movie(Store, u, m))

DeleteUser == \E u \in UserIds : Step("delete_user", delete_user(Store, u))

Next ==
    \/ AddUser
    \/ AddMovie
    \/ AddUserMovie
    \/ UpdateMovie
    \/ DeleteMovie
    \/ DeleteUser

Spec == Init /\ [][Next]_vars

\* ------------------------------------------------------ request handlers

MaxNameLen == 2

\* The characters a submitted name is made of: a letter, a digit,
\* the underscore, a character that is neither, and white space.
Chars == {"a", "1", "_", "-", " "}

isalnum(c) == c \in {"a", "1"}

isalpha(c) == c = "a"

isspace(c) == c = " "

RawNames == UNION {[1..n -> Chars] : n \in 0..MaxNameLen}

RECURSIVE lstrip(_)
lstrip(s) == IF s # <<>> /\ isspace(Head(s)) THEN lstrip(Tail(s)) ELSE s

RECURSIVE rstrip(_)
rstrip(s) ==
    IF s # <<>> /\ isspace(s[Len(s)]) THEN rstrip(SubSeq(s, 1, Len(s) - 1)) ELSE s

strip(s) == rstrip(lstrip(s))

\* Form fields arrive as text; int() and float() read them.
IsInt(s) == s \in {"1997", "1979", "0"}

int(s) == CASE s = "1997" -> 1997 [] s = "1979" -> 1979 [] s = "0" -> 0

IsFloat(s) == s \in {"8.7", "8.5", "0.0"} \/ IsInt(s)

float(s) ==
    CASE s = "8.7" -> 87 [] s = "8.5" -> 85 [] s = "0.0" -> 0
      [] IsInt(s) -> int(s) * 10

\* What int() / float() raise on text they cannot read.
ParseError(s) == IF s = None THEN "TypeError" ELSE "ValueError"

FormTitanic == [name |-> "Titanic", director |-> "Cameron", year |-> "1997",
                rating |-> "8.7", poster |-> "p1"]
FormAlien == [name |-> "Alien", director |-> "Scott", year |-> "1979",
              rating |-> "8.5", poster |-> "p2"]

\* Submitted forms: two complete ones, one without the name field and one
\* whose year is no number.
Forms == {FormTitanic, FormAlien, [FormTitanic EXCEPT !.name = None],
          [FormAlien EXCEPT !.year = "abc"]}

\* datetime.now().year
NowYear == 2026

\* POST /add_user without the check for a letter.
route_add_user_no_alpha(st, raw) ==
    LET name == strip(raw)
        bad_chars == {i \in 1..Len(name) : ~isalnum(name[i]) /\ name[i] # "_"}
        avail == is_available_username(st, name)
    IN  IF name = <<>> THEN Ret(st, "400", {})
        ELSE IF bad_chars # {} THEN Ret(st, "flash", {})
        ELSE IF Raised(avail) THEN avail
        ELSE IF avail.res = "False" THEN Ret(st, "flash", {})
        ELSE LET added == add_user(st, name)
             IN  IF Raised(added) THEN added ELSE Ret(added.st, "redirect", {})

\* POST /add_user
route_add_user(st, raw) ==
    LET name == strip(raw)
        bad_chars == {i \in 1..Len(name) : ~isalnum(name[i]) /\ name[i] # "_"}
        alpha_chars == {i \in 1..Len(name) : isalpha(name[i])}
        avail == is_available_username(st, name)
    IN  IF name = <<>> THEN Ret(st, "400", {})
        ELSE IF bad_chars # {} THEN Ret(st, "flash", {})
        ELSE IF alpha_chars = {} THEN Ret(st, "flash", {})
        ELSE IF Raised(avail) THEN avail
        ELSE IF avail.res = "False" THEN Ret(st, "flash", {})
        ELSE LET added == add_user(st, name)
             IN  IF Raised(added) THEN added ELSE Ret(added.st, "redirect", {})

\* POST /users/<user_id>/add_movie
route_add_user_movie(st, user_id, form) ==
    IF ~IsInt(form.year) THEN Raise(st, ParseError(form.year))
    ELSE IF ~IsFloat(form.rating) THEN Raise(st, ParseError(form.rating))
    ELSE LET added == add_movie(st, [name |-> form.name,
                                     director |-> form.director,
                                     year |-> int(form.year),
                                     rating |-> float(form.rating),
                                     poster |-> form.poster])
         IN  IF Raised(added) THEN added
             ELSE LET movie_id == CHOOSE i \in added.val : TRUE
                      paired == add_user_movie(added.st, user_id, movie_id)
                  IN  IF Raised(paired) THEN paired
                      ELSE Ret(paired.st, "redirect", {})

\* POST /users/<user_id>/update_movie/<movie_id>
route_update_user_movie(st, user_id, movie_id, form) ==
    LET movie == get_movie_from_id(st, movie_id)
    IN  IF Raised(movie) THEN movie
        ELSE IF ~IsInt(form.year) THEN Ret(st, "flash", {})
        ELSE IF ~(1800 < int(form.year) /\ int(form.year) < NowYear + 5)
             THEN Ret(st, "flash", {})
        ELSE IF ~IsFloat(form.rating) THEN Ret(st, "flash", {})
        ELSE IF ~(0 <= float(form.rating) /\ float(form.rating) <= 100)
             THEN Ret(st, "flash", {})
        ELSE LET updated ==
                     update_movie(st, create_movie_object(
                         movie_id, form.name, form.director, int(form.year),
                         float(form.rating), form.poster))
             IN  IF Raised(updated) THEN updated
                 ELSE Ret(updated.st, "redirect", {})

\* GET /users/<user_id>/delete_movie/<movie_id>
route_delete_user_movie(st, user_id, movie_id) ==
    LET movie == get_movie_from_id(st, movie_id)
    IN  IF Raised(movie) THEN movie
        ELSE LET deleted == delete_movie(st, user_id, movie_id)
             IN  IF Raised(deleted) THEN deleted
                 ELSE Ret(deleted.st, "redirect", {})

\* The loop of delete_user: delete_movie for each listed movie, in the
\* order of the listing, until one raises.
RECURSIVE delete_movies(_, _, _)
delete_movies(st, user_id, ids) ==
    IF ids = {} THEN Ret(st, "ok", {})
    ELSE LET first == CHOOSE i \in ids : \A j \in ids : i <= j
             deleted == delete_movie(st, user_id, first)
         IN  IF Raised(deleted) THEN deleted
             ELSE delete_movies(deleted.st, user_id, ids \ {first})

\* GET /users/<user_id>/delete_user
route_delete_user(st, user_id) ==
    LET username == get_username_from_id(st, user_id)
        movies_to_del == get_user_movies(st, user_id)
    IN  IF Raised(username) THEN username
        ELSE IF Raised(movies_to_del) THEN movies_to_del
        ELSE LET cleared == delete_movies(st, user_id, Ids(movies_to_del.val))
             IN  IF Raised(cleared) THEN cleared
                 ELSE LET gone == delete_user(cleared.st, user_id)
                      IN  IF Raised(gone) THEN gone
                          ELSE Ret(gone.st, "redirect", {})

\* ---------------------------------------------------- request behaviours

RegisterRequest ==
    \E raw \in RawNames : Request("route_add_user", route_add_user(Store, raw))

AddMovieRequest ==
    \E u \in UserIds, f \in Forms :
        Request("route_add_user_movie", route_add_user_movie(Store, u, f))

UpdateMovieRequest ==
    \E u \in UserIds, m \in RequestMovieIds, f \in Forms :
        Request("route_update_user_movie", route_update_user_movie(Store, u, m, f))

DeleteMovieRequest ==
    \E u \in UserIds, m \in RequestMovieIds :
        Request("route_delete_user_movie", route_delete_user_movie(Store, u, m))

DeleteUserRequest ==
    \E u \in UserIds : Request("route_delete_user", route_delete_user(Store, u))

NextApp ==
    \/ RegisterRequest
    \/ AddMovieRequest
    \/ UpdateMovieRequest
    \/ DeleteMovieRequest
    \/ DeleteUserRequest

SpecApp == Init /\ [][NextApp]_vars

\* The requests that create and remove users, on their own.
NextRegister ==
    \/ RegisterRequest
    \/ DeleteUserRequest

SpecRegister == Init /\ [][NextRegister]_vars

\* ------------------------------------------- the Session, by statement

\* The Session and the database behind it, as a statement finds them.
Session ==
    [users |-> users, movies |-> movies, user_movies |-> user_movies,
     db_session |-> db_session, pending |-> pending, durable |-> durable]

NoIds == [t \in Threads |-> 0]

\* What a statement leaves and gives; ids holds, per thread, the id a flush
\* gave to the row that thread had added (0 when it gave none).
Done(st, res, ids) == [st |-> st, res |-> res, ids |-> ids]

\* Session.add(row) on behalf of thread t.
session_add(ss, table, row, t) ==
    [ss EXCEPT !.pending = Append(@, [kind |-> "add", table |-> table,
                                      row |-> row, by |-> t])]

Registered(ss, kind, table) ==
    {ss.pending[i].row : i \in {j \in 1..Len(ss.pending) :
                                   /\ ss.pending[j].kind = kind
                                   /\ ss.pending[j].table = table}}

\* Session.delete(row), the row given by its id: the row is the one object
\* the identity map holds, so deleting it twice registers it once.
session_delete(ss, table, row, t) ==
    IF row \in Registered(ss, "delete", table) THEN ss
    ELSE [ss EXCEPT !.pending = Append(@, [kind |-> "delete", table |-> table,
                                           row |-> row, by |-> t])]

\* The INSERTs of a flush, in the order of the Session.add calls.
RECURSIVE flush_new(_, _)
flush_new(r, ops) ==
    IF ops = <<>> \/ ~r.ok THEN r
    ELSE LET o == Head(ops)
             st == r.st
         IN  IF o.kind # "add" THEN flush_new(r, Tail(ops))
             ELSE IF o.table = "users"
                  THEN IF \E u \in st.users : u.name = o.row.name
                       THEN [r EXCEPT !.ok = FALSE]   \* users.name is unique=True
                       ELSE flush_new(
                                [r EXCEPT !.st.users =
                                              @ \cup {[id |-> NextId(st.users),
                                                       name |-> o.row.name]},
                                          !.ids[o.by] = NextId(st.users)],
                                Tail(ops))
             ELSE IF o.table = "movies"
                  THEN IF None \in {o.row.name, o.row.director, o.row.poster}
                       THEN [r EXCEPT !.ok = FALSE]   \* nullable=False
                       ELSE flush_new(
                                [r EXCEPT !.st.movies =
                                              @ \cup {MovieRow(NextId(st.movies), o.row)},
                                          !.ids[o.by] = NextId(st.movies)],
                                Tail(ops))
             ELSE flush_new(
                      [r EXCEPT !.st.user_movies =
                                    @ \cup {[id |-> NextId(st.user_movies),
                                             user_id |-> o.row.user_id,
                                             movie_id |-> o.row.movie_id]},
                                !.ids[o.by] = NextId(st.user_movies)],
                      Tail(ops))

\* The DELETEs of a flush. A deleted movie's remaining pairings would get
\* movie_id NULL (relationship Movie.users, no delete cascade), which
\* nullable=False refuses.
flush_deleted(r) ==
    LET gone_links == Registered(r.st, "delete", "user_movies")
        gone_movies == Registered(r.st, "delete", "movies")
        left == {l \in r.st.user_movies : l.id \notin Ids(gone_links)}
    IN  IF ~r.ok THEN r
        ELSE IF \E l \in left : l.movie_id \in Ids(gone_movies)
             THEN [r EXCEPT !.ok = FALSE]
             ELSE [r EXCEPT !.st.user_movies = left,
                            !.st.movies = {m \in @ : m.id \notin Ids(gone_movies)}]

\* Session.flush(): writes what is registered; when a statement of it
\* fails, the transaction is rolled back to the last commit, what was
\* registered is dropped and the Session is left inactive.
flush(ss) ==
    LET r == flush_deleted(flush_new([st |-> ss, ok |-> TRUE, ids |-> NoIds],
                                     ss.pending))
    IN  IF r.ok THEN [r EXCEPT !.st.pending = <<>>]
        ELSE [st |-> [ss EXCEPT !.users = ss.durable.users,
                                !.movies = ss.durable.movies,
                                !.user_movies = ss.durable.user_movies,
                                !.pending = <<>>,
                                !.db_session = "inactive"],
              ok |-> FALSE, ids |-> NoIds]

\* What precedes every query (autoflush) and every commit.
autoflush(ss) ==
    IF Inactive(ss) THEN Done(ss, "PendingRollbackError", NoIds)
    ELSE LET f == flush(ss)
         IN  Done(f.st, IF f.ok THEN "ok" ELSE "IntegrityError", f.ids)

\* Session.commit()
commit(ss) ==
    LET b == autoflush(ss)
    IN  IF b.res = "ok" THEN [b EXCEPT !.st.durable = Tables(b.st)] ELSE b

\* ------------------------------------------------------ serving threads

\* The statement left the Session and the database as ss.
Sets(ss) ==
    /\ users' = ss.users
    /\ movies' = ss.movies
    /\ user_movies' = ss.user_movies
    /\ db_session' = ss.db_session
    /\ pending' = ss.pending
    /\ durable' = ss.durable
    /\ UNCHANGED response

Within(ss) == Bounded(ss, MaxMovieId) /\ Len(ss.pending) <= MaxPending

\* Each thread reads the id of the row it added off its own object.
Assigned(th, ids) ==
    [t \in Threads |-> IF ids[t] # 0 THEN [th[t] EXCEPT !.new_id = ids[t]]
                       ELSE th[t]]

\* Thread t's statement ended as b and its request goes on at `next`.
Moves(t, th, b, next) ==
    /\ Within(b.st)
    /\ Sets(b.st)
    /\ threads' = [Assigned(th, b.ids) EXCEPT ![t].pc = next]
    /\ UNCHANGED last

\* Thread t's statement ended as b and its request ends with res: of its
\* locals only what the request was and how it went is kept.
Ends(t, th, b, res) ==
    /\ Within(b.st)
    /\ Sets(b.st)
    /\ threads' = [Assigned(th, b.ids) EXCEPT
                       ![t] = [IdleThread EXCEPT !.op = th[t].op, !.res = res,
                                                 !.avail = th[t].avail,
                                                 !.name = th[t].name]]
    /\ last' = [op |-> th[t].op, res |-> res]

At(t, pc) == threads[t].pc = pc

\* A request or call arrives at the idle thread t.
Arrived(t, op, name, user_id, movie_id) ==
    [threads EXCEPT ![t] = [IdleThread EXCEPT !.op = op, !.name = name,
                                              !.user_id = user_id,
                                              !.movie_id = movie_id]]

\* What a request answers where a bare call returns res.
Answer(th, t, res) ==
    IF th[t].op = "add_user_movie" THEN res ELSE "redirect"

\* The name the concurrent registrations ask for.
ThreadNames == {<<"a">>}

\* POST /add_user with a name that passes the handler's checks:
\* is_available_username, the query.
CheckAvailable ==
    \E t \in Threads, n \in ThreadNames :
        /\ At(t, "idle")
        /\ LET th == Arrived(t, "route_add_user", n, 0, 0)
               b == autoflush(Session)
           IN  IF b.res # "ok" THEN Ends(t, th, b, b.res)
               ELSE IF \E u \in b.st.users : u.name = n
                    THEN Ends(t, [th EXCEPT ![t].avail = "False"], b, "flash")
                    ELSE Moves(t, [th EXCEPT ![t].avail = "True"], b, "add_user")

\* add_user: Session.add
AddUserAdd ==
    \E t \in Threads :
        /\ At(t, "add_user")
        /\ Moves(t, threads,
                 Done(session_add(Session, "users", [name |-> threads[t].name], t),
                      "ok", NoIds),
                 "add_user_commit")

\* add_user: Session.commit
AddUserCommit ==
    \E t \in Threads :
        /\ At(t, "add_user_commit")
        /\ LET c == commit(Session)
           IN  Ends(t, threads, c, IF c.res = "ok" THEN "redirect" ELSE c.res)

\* POST /users/<user_id>/add_movie with a complete form: add_movie, Session.add
AddMovieAdd ==
    \E t \in Threads, u \in UserIds :
        /\ At(t, "idle")
        /\ Moves(t, Arrived(t, "route_add_user_movie", <<>>, u, 0),
                 Done(session_add(Session, "movies", Titanic, t), "ok", NoIds),
                 "add_movie_commit")

\* add_movie: Session.commit, then new_movie.id
AddMovieCommit ==
    \E t \in Threads :
        /\ At(t, "add_movie_commit")
        /\ LET c == commit(Session)
               movie_id == Assigned(threads, c.ids)[t].new_id
           IN  IF c.res = "ok"
               THEN Moves(t, [threads EXCEPT ![t].movie_id = movie_id], c, "pair_movie")
               ELSE Ends(t, threads, c, c.res)

\* add_user_movie: the query for the movie, .one()
QueryMovie(t, th) ==
    LET b == autoflush(Session)
    IN  IF b.res # "ok" THEN Ends(t, th, b, b.res)
        ELSE IF ~ \E m \in b.st.movies : m.id = th[t].movie_id
             THEN Ends(t, th, b, "NoResultFound")
             ELSE Moves(t, th, b, "pair_user")

\* add_user_movie(user_id, movie_id) called on its own.
CallAddUserMovie ==
    \E t \in Threads, u \in UserIds, m \in MovieIds :
        At(t, "idle") /\ QueryMovie(t, Arrived(t, "add_user_movie", <<>>, u, m))

\* add_user_movie called by the add-movie request.
PairMovie == \E t \in Threads : At(t, "pair_movie") /\ QueryMovie(t, threads)

\* add_user_movie: the query for the user, .one()
PairUser ==
    \E t \in Threads :
        /\ At(t, "pair_user")
        /\ LET b == autoflush(Session)
           IN  IF b.res # "ok" THEN Ends(t, threads, b, b.res)
               ELSE IF ~ \E u \in b.st.users : u.id = threads[t].user_id
                    THEN Ends(t, threads, b, "NoResultFound")
                    ELSE Moves(t, threads, b, "pair_existing")

\* add_user_movie: the query for an existing pairing, .first()
PairExisting ==
    \E t \in Threads :
        /\ At(t, "pair_existing")
        /\ LET b == autoflush(Session)
           IN  IF b.res # "ok" THEN Ends(t, threads, b, b.res)
               ELSE IF \E r \in b.st.user_movies :
                           /\ r.user_id = threads[t].user_id
                           /\ r.movie_id = threads[t].movie_id
                    THEN Ends(t, threads, b, Answer(threads, t, "already"))
                    ELSE Moves(t, threads, b, "pair_add")

\* add_user_movie: Session.add
PairAdd ==
    \E t \in Threads :
        /\ At(t, "pair_add")
        /\ Moves(t, threads,
                 Done(session_add(Session, "user_movies",
                                  [user_id |-> threads[t].user_id,
                                   movie_id |-> threads[t].movie_id], t),
                      "ok", NoIds),
                 "pair_commit")

\* add_user_movie: Session.commit
PairCommit ==
    \E t \in Threads :
        /\ At(t, "pair_commit")
        /\ LET c == commit(Session)
           IN  Ends(t, threads, c,
                    IF c.res = "ok" THEN Answer(threads, t, "ok") ELSE c.res)

\* GET /users/<user_id>/delete_movie/<movie_id>: get_movie_from_id, .one()
GetMovie ==
    \E t \in Threads, u \in UserIds, m \in MovieIds :
        /\ At(t, "idle")
        /\ LET th == Arrived(t, "route_delete_user_movie", <<>>, u, m)
               b == autoflush(Session)
           IN  IF b.res # "ok" THEN Ends(t, th, b, b.res)
               ELSE IF ~ \E v \in b.st.movies : v.id = m
                    THEN Ends(t, th, b, "NoResultFound")
                    ELSE Moves(t, th, b, "delete_query_rel")

\* delete_movie: the query for the pairing, .one()
DeleteQueryRel ==
    \E t \in Threads :
        /\ At(t, "delete_query_rel")
        /\ LET b == autoflush(Session)
               rel == {r \in b.st.user_movies :
                           /\ r.user_id = threads[t].user_id
                           /\ r.movie_id = threads[t].movie_id}
           IN  IF b.res # "ok" THEN Ends(t, threads, b, b.res)
               ELSE IF rel = {} THEN Ends(t, threads, b, "NoResultFound")
               ELSE IF Cardinality(rel) > 1
                    THEN Ends(t, threads, b, "MultipleResultsFound")
                    ELSE Moves(t, [threads EXCEPT ![t].link_id = Max(Ids(rel))],
                               b, "delete_query_movie")

\* delete_movie: the query for the movie, .one()
DeleteQueryMovie ==
    \E t \in Threads :
        /\ At(t, "delete_query_movie")
        /\ LET b == autoflush(Session)
           IN  IF b.res # "ok" THEN Ends(t, threads, b, b.res)
               ELSE IF ~ \E m \in b.st.movies : m.id = threads[t].movie_id
                    THEN Ends(t, threads, b, "NoResultFound")
                    ELSE Moves(t, threads, b, "delete_rel")

\* delete_movie: Session.delete(relationship_to_del)
DeleteRel ==
    \E t \in Threads :
        /\ At(t, "delete_rel")
        /\ Moves(t, threads,
                 Done(session_delete(Session, "user_movies",
                                     [id |-> threads[t].link_id], t),
                      "ok", NoIds),
                 "delete_movie")

\* delete_movie: Session.delete(movie_to_del)
DeleteMovieObject ==
    \E t \in Threads :
        /\ At(t, "delete_movie")
        /\ Moves(t, threads,
                 Done(session_delete(Session, "movies",
                                     [id |-> threads[t].movie_id], t),
                      "ok", NoIds),
                 "delete_commit")

\* delete_movie: Session.commit
DeleteCommit ==
    \E t \in Threads :
        /\ At(t, "delete_commit")
        /\ LET c == commit(Session)
           IN  Ends(t, threads, c, IF c.res = "ok" THEN "redirect" ELSE c.res)

NextThreads ==
    \/ CheckAvailable
    \/ AddUserAdd
    \/ AddUserCommit
    \/ AddMovieAdd
    \/ AddMovieCommit
    \/ CallAddUserMovie
    \/ PairMovie
    \/ PairUser
    \/ PairExisting
    \/ PairAdd
    \/ PairCommit
    \/ GetMovie
    \/ DeleteQueryRel
    \/ DeleteQueryMovie
    \/ DeleteRel
    \/ DeleteMovieObject
    \/ DeleteCommit

SpecThreads == Init /\ [][NextThreads]_vars

\* ---------------------------------------------------- movie-info lookup

\* name.translate(str.maketrans('', '', ','))
without_commas(s) == IF s = "Ti,tanic" THEN "Titanic" ELSE s

\* year.translate(str.maketrans('', '', '-_')) and the same for rating
without_dashes(s) == IF s = "1997-" THEN "1997" ELSE s

\* What fetch_omdb_data gives: res is "tuple" with the five values in val,
\* "None" (bail_protocol), or the exception it lets through.
Fetched(res, val) == [res |-> res, val |-> val]

bail_protocol == Fetched("None", <<>>)

fetch_omdb_data(reply) ==
    LET response_dict == reply.dict
        name == response_dict.Title
        director == response_dict.Director
        year == IF response_dict.Year \in {"N/A", None} THEN "0"
                ELSE response_dict.Year
        rating == IF response_dict.imdbRating = "N/A" \/ year = None THEN "0.0"
                  ELSE response_dict.imdbRating
        poster == response_dict.Poster
    IN  IF reply.raised # "" THEN bail_protocol
        ELSE IF reply.status_code # 200 THEN bail_protocol
        ELSE IF ~reply.is_json THEN Fetched("JSONDecodeError", <<>>)
        ELSE IF response_dict.Response = "False" THEN bail_protocol
        ELSE IF name = None THEN Fetched("TypeError", <<>>)   \* ',' in None
        ELSE IF None \in {without_commas(name), director, year, rating, poster}
             THEN bail_protocol
        ELSE IF ~IsInt(without_dashes(year)) THEN bail_protocol
        ELSE IF ~IsFloat(without_dashes(rating)) THEN bail_protocol
        ELSE Fetched("tuple", <<without_commas(name), director,
                                int(without_dashes(year)),
                                float(without_dashes(rating)), poster>>)

\* The lookup is asked for a title while the upstream is about to give any
\* of the replies.
InitLookup ==
    /\ users = {}
    /\ movies = {}
    /\ user_movies = {}
    /\ db_session = "active"
    /\ last = [op |-> "init", res |-> "ok"]
    /\ pending = <<>>
    /\ durable = [users |-> {}, movies |-> {}, user_movies |-> {}]
    /\ threads = [t \in Threads |-> IdleThread]
    /\ response \in Replies

FetchOmdbData ==
    /\ last' = [op |-> "fetch_omdb_data", res |-> fetch_omdb_data(response).res]
    /\ UNCHANGED <<users, movies, user_movies, db_session, pending, durable,
                   threads, response>>

NextLookup == FetchOmdbData

SpecLookup == InitLookup /\ [][NextLookup]_vars

\* ------------------------------------------------------------ properties

\* The step is the call or request `op` ending as r.
Called(op, r) == last'.op = op /\ last'.res = r.res /\ Store' = r.st

TakenName(st, n) == \E u \in st.users : u.name = n

Links(st, user_id, movie_id) ==
    {r \in st.user_movies : r.user_id = user_id /\ r.movie_id = movie_id}

Paired(st, user_id, movie_id) == Links(st, user_id, movie_id) # {}

UserExists(st, user_id) == \E u \in st.users : u.id = user_id

MovieExists(st, movie_id) == \E m \in st.movies : m.id = movie_id

\* C1: whatever sequence of add_user calls is made, with or without an
\* availability check before them, no two rows of users carry the same name.
C1_UniqueNames == \A u, v \in users : u.name = v.name => u = v

\* add_user was called with a taken name while two users exist.
C1_Witness ==
    /\ last.op = "add_user"
    /\ last.res = "IntegrityError"
    /\ Cardinality(users) = 2

\* What C2 says of a step: in the state it leaves, is_available_username
\* returns False for every name that has a row, and an add_user of a name
\* that had a row signals IntegrityError and leaves users as it was.
C2_Step ==
    /\ \A n \in NameInputs :
           TakenName(Store', n) => is_available_username(Store', n).res = "False"
    /\ \A n \in NameInputs :
           (Called("add_user", add_user(Store, n)) /\ TakenName(Store, n))
               => (last'.res = "IntegrityError" /\ users' = users)

\* C2: once add_user(n) has succeeded, is_available_username(n) returns
\* False, and a second add_user(n) signals the duplicate name and leaves the
\* users table unchanged.
C2_TakenNameRefused == [][C2_Step]_vars

\* The same while the Session is active before and after the step.
C2_ActiveSession ==
    [][(db_session = "active" /\ db_session' = "active") => C2_Step]_vars

\* What C3 says of a state: two add_movie calls with the same values both
\* succeed and leave two more rows, under two different ids.
C3_TwiceAdds(d) ==
    LET first == add_movie(Store, d)
        second == add_movie(first.st, d)
    IN  /\ first.res = "ok"
        /\ second.res = "ok"
        /\ first.val # second.val
        /\ Cardinality(second.st.movies) = Cardinality(movies) + 2
        /\ Cardinality(Ids(second.st.movies)) = Cardinality(second.st.movies)

\* C3: movie entries are never deduplicated: add_movie called twice with
\* identical values always succeeds and yields two rows with distinct ids,
\* and in every reachable state the ids of movies are pairwise distinct.
C3_NoDeduplication ==
    /\ \A d \in TypedMovieInputs : C3_TwiceAdds(d)
    /\ \A m, n \in movies : m.id = n.id => m = n

\* The same while the Session is active.
C3_ActiveSession ==
    /\ db_session = "active" => \A d \in TypedMovieInputs : C3_TwiceAdds(d)
    /\ \A m, n \in movies : m.id = n.id => m = n

\* What C4 says of a delete_movie(U, M) step: the pairing and the movie
\* are gone, M can no longer be fetched and is not among U's movies.
C4_Removed(U, M) ==
    /\ ~Paired(Store', U, M)
    /\ ~MovieExists(Store', M)
    /\ get_movie_from_id(Store', M).res = "NoResultFound"
    /\ M \notin Ids(get_user_movies(Store', U).val)

\* C4: delete_movie(U, M) on an existing pairing (U, M) removes the pairing
\* and the movie; afterwards get_movie_from_id(M) signals not found and M
\* is not in get_user_movies(U).
C4_DeleteRemovesBoth ==
    [][\A U \in UserIds, M \in MovieIds :
           (Called("delete_movie", delete_movie(Store, U, M)) /\ Paired(Store, U, M))
               => C4_Removed(U, M)]_vars

\* The same for a movie no other user is paired with, on an active Session.
C4_ActiveSessionSoleOwner ==
    [][\A U \in UserIds, M \in MovieIds :
           (/\ Called("delete_movie", delete_movie(Store, U, M))
            /\ Paired(Store, U, M)
            /\ OtherLinks(Store, U, M) = {}
            /\ db_session = "active")
               => C4_Removed(U, M)]_vars

\* C5: delete_movie(U, M) without a pairing (U, M) signals not found and
\* leaves the three tables unchanged; no user deletes another user's movie.
C5_DeleteUnpairedRefused ==
    [][\A U \in UserIds, M \in MovieIds :
           (Called("delete_movie", delete_movie(Store, U, M)) /\ ~Paired(Store, U, M))
               => (last'.res = "NoResultFound" /\ UNCHANGED tables)]_vars

\* The same on an active Session.
C5_ActiveSession ==
    [][\A U \in UserIds, M \in MovieIds :
           (/\ Called("delete_movie", delete_movie(Store, U, M))
            /\ ~Paired(Store, U, M)
            /\ db_session = "active")
               => (last'.res = "NoResultFound" /\ UNCHANGED tables)]_vars

\* What C6 says of a state, for an existing user U and movie M: after one
\* add_user_movie(U, M), a second one reports the existing pairing, changes
\* nothing, and exactly one row pairs U with M.
C6_SecondIsNoOp(U, M) ==
    LET first == add_user_movie(Store, U, M)
        second == add_user_movie(first.st, U, M)
    IN  /\ second.res = "already"
        /\ second.st = first.st
        /\ Cardinality(Links(second.st, U, M)) = 1

\* C6: creating a pairing is idempotent: a second add_user_movie(U, M) is a
\* no-op that reports the pairing exists, and after any number of calls
\* exactly one row pairs U with M.
C6_PairingIdempotent ==
    \A u \in users, m \in movies : C6_SecondIsNoOp(u.id, m.id)

\* The same on an active Session.
C6_ActiveSession == db_session = "active" => C6_PairingIdempotent

\* C7: add_user_movie(U, M) with U no existing user or M no existing movie
\* signals not found and creates no pairing.
C7_UnresolvedRefused ==
    [][\A U \in UserIds, M \in MovieIds :
           (/\ Called("add_user_movie", add_user_movie(Store, U, M))
            /\ (~UserExists(Store, U) \/ ~MovieExists(Store, M)))
               => (last'.res = "NoResultFound" /\ user_movies' = user_movies)]_vars

\* The same on an active Session.
C7_ActiveSession ==
    [][\A U \in UserIds, M \in MovieIds :
           (/\ Called("add_user_movie", add_user_movie(Store, U, M))
            /\ (~UserExists(Store, U) \/ ~MovieExists(Store, M))
            /\ db_session = "active")
               => (last'.res = "NoResultFound" /\ user_movies' = user_movies)]_vars

MovieSide(st) == \A r \in st.user_movies : MovieExists(st, r.movie_id)

UserSide(st) == \A r \in st.user_movies : UserExists(st, r.user_id)

DeletesPairedUser ==
    \E U \in UserIds :
        /\ Called("delete_user", delete_user(Store, U))
        /\ \E r \in user_movies : r.user_id = U

C9_OneOwnerPerMovie ==
    \A m \in movies : Cardinality({r \in user_movies : r.movie_id = m.id}) = 1

\* The movies user U is paired with.
Owned(st, U) == {m \in st.movies : Paired(st, U, m.id)}

\* What C10 says of a delete-user request for an existing user U: U's row,
\* U's pairings and the movies U owned are gone, listing U's movies gives
\* nothing, and every other row is as it was.
C10_Cascaded(U) ==
    /\ users' = {u \in users : u.id # U}
    /\ user_movies' = {r \in user_movies : r.user_id # U}
    /\ movies' = movies \ Owned(Store, U)
    /\ get_user_movies(Store', U).res = "ok"
    /\ get_user_movies(Store', U).val = {}

\* C10: a delete-user request for U removes U's row, every pairing of U and
\* every movie U owned; afterwards U's movie list is empty and no other
\* user's rows have changed.
C10_DeleteUserCascades ==
    [][\A U \in UserIds :
           (/\ Called("route_delete_user", route_delete_user(Store, U))
            /\ UserExists(Store, U))
               => C10_Cascaded(U)]_vars

\* The same on an active Session.
C10_ActiveSession ==
    [][\A U \in UserIds :
           (/\ Called("route_delete_user", route_delete_user(Store, U))
            /\ UserExists(Store, U)
            /\ db_session = "active")
               => C10_Cascaded(U)]_vars

\* What C11 says of an update_movie step on the existing movie M with the
\* values d: M's row carries d under the same id, and no other row of any
\* table has changed.
C11_Replaced(M, d) ==
    /\ last'.res = "ok"
    /\ movies' = {m \in movies : m.id # M} \cup {MovieRow(M, d)}
    /\ users' = users
    /\ user_movies' = user_movies

\* C11: update_movie on an existing movie M is a full replacement with a
\* narrow frame: M's five fields equal the supplied values, M's id is the
\* same, and the users, the pairings and every other movie row are unchanged.
C11_FullReplacement ==
    [][\A M \in MovieIds, d \in TypedMovieInputs :
           (/\ Called("update_movie",
                      update_movie(Store, create_movie_object(
                          M, d.name, d.director, d.year, d.rating, d.poster)))
            /\ MovieExists(Store, M))
               => C11_Replaced(M, d)]_vars

\* The same on an active Session.
C11_ActiveSession ==
    [][\A M \in MovieIds, d \in TypedMovieInputs :
           (/\ Called("update_movie",
                      update_movie(Store, create_movie_object(
                          M, d.name, d.director, d.year, d.rating, d.poster)))
            /\ MovieExists(Store, M)
            /\ db_session = "active")
               => C11_Replaced(M, d)]_vars

\* C12: update_movie with an id that no movie row has signals not found,
\* never success, and leaves the movies table unchanged.
C12_UpdateAbsentRefused ==
    [][\A M \in MovieIds, d \in MovieInputs :
           (/\ Called("update_movie",
                      update_movie(Store, create_movie_object(
                          M, d.name, d.director, d.year, d.rating, d.poster)))
            /\ ~MovieExists(Store, M))
               => (/\ last'.res \in {"NotFound", "NoResultFound"}
                   /\ movies' = movies)]_vars

\* What C13 says of a state and a user U: get_user_movies(U) gives exactly
\* the movie rows U is paired with.
C13_Exact(U) ==
    LET listed == get_user_movies(Store, U)
    IN  /\ listed.res = "ok"
        /\ \A m \in movies : m \in listed.val <=> Links(Store, U, m.id) # {}
        /\ listed.val \subseteq movies

\* C13: in every state and for every user U, get_user_movies(U) returns
\* exactly the movies that have a pairing with U, none when U owns nothing.
C13_ListsExactlyOwned == \A U \in UserIds : C13_Exact(U)

\* The same on an active Session.
C13_ActiveSession == db_session = "active" => C13_ListsExactlyOwned

\* C14: an update-movie request under user U for movie M changes the movies
\* table only if the pairing (U, M) exists.
C14_UpdateOnlyByOwner ==
    [][\A U \in UserIds, M \in RequestMovieIds, f \in Forms :
           (/\ Called("route_update_user_movie",
                      route_update_user_movie(Store, U, M, f))
            /\ ~Paired(Store, U, M))
               => movies' = movies]_vars

\* Every movie row of the tables tb has a pairing and every pairing of tb
\* has its movie row.
NoneDangling(tb) ==
    /\ \A m \in tb.movies : \E r \in tb.user_movies : r.movie_id = m.id
    /\ \A r \in tb.user_movies : \E m \in tb.movies : m.id = r.movie_id

\* C15: the add-movie request and delete_movie are atomic: neither in what
\* a crash would leave (the tables as of the last commit) nor in what
\* another request sees is there a movie without its pairing or a pairing
\* without its movie.
C15_Atomic == NoneDangling(durable) /\ NoneDangling(Tables(Session))

\* Threads s and t have both ended a registration of the same name that
\* the availability check had told each of them was free.
C16_Raced(s, t) ==
    /\ s # t
    /\ \A x \in {s, t} : /\ threads[x].pc = "idle"
                         /\ threads[x].op = "route_add_user"
                         /\ threads[x].avail = "True"
    /\ threads[s].name = threads[t].name

\* C16: when two registrations of the same available name race, at most
\* one row of users gets the name, and a request that did not create the
\* row was told the name is a duplicate.
C16_LoserGetsDuplicateName ==
    \A s, t \in Threads :
        C16_Raced(s, t) =>
            /\ Cardinality({u \in users : u.name = threads[s].name}) <= 1
            /\ threads[s].res \in {"redirect", "IntegrityError"}
            /\ threads[t].res \in {"redirect", "IntegrityError"}
            /\ ~(threads[s].res = "redirect" /\ threads[t].res = "redirect")

\* The part of C16 that the unique constraint decides: however the
\* registrations interleave, no two rows of users carry the same name.
C16_AtMostOneRow == \A u, v \in users : u.name = v.name => u = v

\* C17: however two add_user_movie(U, M) calls interleave, at most one row
\* of user_movies pairs U with M.
C17_UniquePairs ==
    \A r, q \in user_movies :
        (r.user_id = q.user_id /\ r.movie_id = q.movie_id) => r = q

\* The call gives on this instance what it gives on a fresh one: the same
\* result or signal, the same rows returned, the same rows left.
SameOutcome(here, fresh) ==
    /\ here.res = fresh.res
    /\ here.val = fresh.val
    /\ Tables(here.st) = Tables(fresh.st)

\* C18: the data layer keeps no state from call to call beyond the stored
\* rows: in every state the operations reach, failed calls included, every
\* operation gives what it would give on a fresh instance over the same rows.
C18_NoCrossCallState ==
    /\ \A n \in NameInputs :
           /\ SameOutcome(add_user(Store, n), add_user(Fresh(Store), n))
           /\ SameOutcome(is_available_username(Store, n),
                          is_available_username(Fresh(Store), n))
    /\ \A d \in MovieInputs :
           SameOutcome(add_movie(Store, d), add_movie(Fresh(Store), d))
    /\ \A U \in UserIds :
           /\ SameOutcome(get_user_movies(Store, U), get_user_movies(Fresh(Store), U))
           /\ SameOutcome(user_id_exists(Store, U), user_id_exists(Fresh(Store), U))
    /\ \A M \in MovieIds :
           SameOutcome(get_movie_from_id(Store, M), get_movie_from_id(Fresh(Store), M))
    /\ \A U \in UserIds, M \in MovieIds :
           /\ SameOutcome(add_user_movie(Store, U, M),
                          add_user_movie(Fresh(Store), U, M))
           /\ SameOutcome(delete_movie(Store, U, M), delete_movie(Fresh(Store), U, M))

\* C19: fetch_omdb_data lets no fault through: whatever requests.get gives,
\* it returns the complete 5-tuple or None.
C19_NeverPropagates ==
    /\ last.op = "fetch_omdb_data" => last.res \in {"tuple", "None"}
    /\ LET fetched == fetch_omdb_data(response)
       IN  fetched.res = "tuple" =>
               /\ Len(fetched.val) = 5
               /\ \A i \in {1, 2, 5} : fetched.val[i] # None

\* A name that is not empty, is made of letters, digits and underscores
\* only, and has a letter.
ValidName(n) ==
    /\ n # <<>>
    /\ \A i \in 1..Len(n) : n[i] \in {"a", "1", "_"}
    /\ \E i \in 1..Len(n) : n[i] = "a"

\* C20: every row of users that the registration requests have left has a
\* valid name, and a request whose name, once trimmed, is not valid creates
\* no row, whatever the state it arrives in.
C20_RegisteredNamesValid ==
    /\ \A u \in users : ValidName(u.name)
    /\ \A raw \in RawNames :
           ~ValidName(strip(raw)) => route_add_user(Store, raw).st.users = users

\* A request was turned away while a user with a two-character name exists.
C20_Witness ==
    /\ last.op = "route_add_user"
    /\ last.res = "flash"
    /\ \E u \in users : Len(u.name) = 2

====
